---- MODULE Spec2Model ----
(***************************************************************************)
(* Model of calebcanva/emojify: the grid splitter (src/index.js) and the   *)
(* mask variant (src/unnamed/part_000).                                    *)
(*                                                                         *)
(* Strings are sequences of tokens (single characters, or atoms such as    *)
(* "gif" for a file extension).  JavaScript numbers are records: a finite  *)
(* number [t |-> "num", v |-> n], NaN, or undefined.  An image is a record *)
(* of its source frame, its size and the list of operations applied to it. *)
(***************************************************************************)
EXTENDS Integers, Sequences, FiniteSets, TLC

\* ------------------------------------------------------------------ bounds
MaxPart == 2        \* largest digit of a grid dimension input
MaxTiles == 4       \* largest tile count of a grid dimension input
MaxFrames == 2      \* frames of an animated source
MaxMasks == 3       \* mask files of the mask directory
MaxFilters == 2     \* length of the selected filter list
SourceSize == 256   \* width and height of a decoded source frame

\* ------------------------------------------------- constants of the program
SIZE == 64
MASK_SIZE == 128
GIF_POSTERIZE == 15
PERCENT == 100

\* ------------------------------------------------------- JavaScript values
Num(n) == [t |-> "num", v |-> n]
NaN == [t |-> "NaN", v |-> 0]
Undefined == [t |-> "undefined", v |-> 0]

\* a * b: NaN unless both operands are numbers (undefined converts to NaN)
JsMul(a, b) == IF a.t = "num" /\ b.t = "num" THEN Num(a.v * b.v) ELSE NaN

\* a < b: false when either operand is NaN
JsLt(a, b) == a.t = "num" /\ b.t = "num" /\ a.v < b.v

\* the number of iterations of  for (let k = 0; k < n; k++)
LoopCount(n) == IF JsLt(Num(0), n) THEN n.v ELSE 0

\* ------------------------------------------------------------------ strings
DigitChars == <<"0", "1", "2", "3", "4", "5", "6", "7", "8", "9">>
Digits == {DigitChars[k] : k \in 1..10}
DigitVal(c) == (CHOOSE k \in 1..10 : DigitChars[k] = c) - 1

IsDigits(s) == Len(s) > 0 /\ \A k \in 1..Len(s) : s[k] \in Digits

RECURSIVE DecimalValue(_)
DecimalValue(s) ==
    IF Len(s) = 0 THEN 0
    ELSE 10 * DecimalValue(SubSeq(s, 1, Len(s) - 1)) + DigitVal(s[Len(s)])

\* Number(str) for a string: the empty string is 0, digits are their value
Number(s) ==
    IF Len(s) = 0 THEN Num(0)
    ELSE IF IsDigits(s) THEN Num(DecimalValue(s)) ELSE NaN

\* String(n) of a non-negative integer
RECURSIVE NumToString(_)
NumToString(n) ==
    IF n < 10 THEN <<DigitChars[n + 1]>>
    ELSE NumToString(n \div 10) \o <<DigitChars[(n % 10) + 1]>>

\* str.split(sep)
RECURSIVE Split(_, _)
Split(s, sep) ==
    IF \A k \in 1..Len(s) : s[k] # sep THEN <<s>>
    ELSE LET p == CHOOSE k \in 1..Len(s) :
                      s[k] = sep /\ \A m \in 1..(k - 1) : s[m] # sep
         IN  <<SubSeq(s, 1, p - 1)>> \o Split(SubSeq(s, p + 1, Len(s)), sep)

\* array[k] (0-based) of an array of numbers: undefined past the end
At(arr, k) == IF k + 1 <= Len(arr) THEN arr[k + 1] ELSE Undefined

DIMENSIONS_W_H_REGEX(s) ==
    \E p \in 2..(Len(s) - 1) :
        /\ s[p] \in {",", "|", "x"}
        /\ IsDigits(SubSeq(s, 1, p - 1))
        /\ IsDigits(SubSeq(s, p + 1, Len(s)))

DIMENSIONS_N_REGEX(s) == IsDigits(s)

\* validate of the dimensions question
ValidateDimensions(s) == DIMENSIONS_W_H_REGEX(s) \/ DIMENSIONS_N_REGEX(s)

ImageExtensions == {"png", "jpg", "jpeg", "gif", "bmp"}

\* validate of the image question: /\.(png|jpe?g|gif|bmp)'?$/
ValidateImage(s) ==
    \/ Len(s) >= 2 /\ s[Len(s) - 1] = "." /\ s[Len(s)] \in ImageExtensions
    \/ /\ Len(s) >= 3
       /\ s[Len(s) - 2] = "."
       /\ s[Len(s) - 1] \in ImageExtensions
       /\ s[Len(s)] = "'"

\* the quote stripping of a dragged-in path
StripQuotes(s) ==
    IF Len(s) > 0 /\ s[1] = "'" /\ s[Len(s)] = "'"
    THEN SubSeq(s, 2, Len(s) - 1)
    ELSE s

\* image.split('.').pop()
ExtOf(s) == LET parts == Split(s, ".") IN parts[Len(parts)]

ToLowerCase(s) ==
    [k \in 1..Len(s) |->
        CASE s[k] = "GIF" -> "gif"
          [] s[k] = "PNG" -> "png"
          [] OTHER -> s[k]]

\* the grid shape init derives from the dimensions string
ParseDimensions(s) ==
    IF DIMENSIONS_W_H_REGEX(s)
    THEN LET parts == [k \in 1..Len(Split(s, ",")) |-> Number(Split(s, ",")[k])]
         IN  [ok |-> TRUE, widthParts |-> At(parts, 0), heightParts |-> At(parts, 1)]
    ELSE IF DIMENSIONS_N_REGEX(s)
    THEN [ok |-> TRUE, widthParts |-> Number(s), heightParts |-> Number(s)]
    ELSE [ok |-> FALSE, widthParts |-> Undefined, heightParts |-> Undefined]

\* ------------------------------------------------------------------- images
\* a decoded frame (src is the 1-based index of the source frame)
Decoded(src) ==
    [src |-> src, w |-> Num(SourceSize), h |-> Num(SourceSize), ops |-> <<>>]

Op(name, a) == [op |-> name, args |-> a]

\* image[name](...args): a pixel operation that keeps the size
Apply(image, name, a) == [image EXCEPT !.ops = Append(@, Op(name, a))]

\* image[mode](width, height) for mode resize, cover or contain
Resize(image, mode, width, height) ==
    [image EXCEPT !.w = width, !.h = height,
                  !.ops = Append(@, Op(mode, <<width, height>>))]

\* whether Jimp accepts the target size; outside it the call may throw
ResizeOutcomes(width, height) ==
    IF JsLt(Num(0), width) /\ JsLt(Num(0), height)
    THEN {"ok"}
    ELSE {"ok", "throw"}

Clone(image) == image

Crop(image, x, y, w, h) ==
    [image EXCEPT !.w = Num(w), !.h = Num(h),
                  !.ops = Append(@, Op("crop", <<x, y, w, h>>))]

Posterize(image, n) == Apply(image, "posterize", <<n>>)

\* one case of the switch of applyFilters
ApplyFilter(image, filter, filterValues) ==
    CASE filter = "flip" ->
            IF filterValues[filter] = "horizontal" THEN Apply(image, filter, <<1, 0>>)
            ELSE IF filterValues[filter] = "vertical" THEN Apply(image, filter, <<0, 1>>)
            ELSE IF filterValues[filter] = "both" THEN Apply(image, filter, <<1, 1>>)
            ELSE image
      [] filter \in {"brightness", "contrast", "opacity", "rotate"} ->
            \* the value divided by 100, kept as numerator and denominator
            Apply(image, filter, <<filterValues[filter], PERCENT>>)
      [] filter = "posterize" ->
            Apply(image, filter, <<filterValues[filter]>>)
      [] OTHER -> Apply(image, filter, <<>>)

RECURSIVE ApplyFiltersFrom(_, _, _, _)
ApplyFiltersFrom(image, filters, filterValues, k) ==
    IF k > Len(filters) THEN image
    ELSE ApplyFiltersFrom(ApplyFilter(image, filters[k], filterValues),
                          filters, filterValues, k + 1)

\* the filter list walked from its last entry to its first
applyFiltersReversed(image, filters, filterValues) ==
    ApplyFiltersFrom(image, [k \in 1..Len(filters) |-> filters[Len(filters) + 1 - k]],
                     filterValues, 1)

applyFilters(image, filters, filterValues) ==
    IF Len(filters) > 0
    THEN ApplyFiltersFrom(image, filters, filterValues, 1)
    ELSE image

\* the body of the inner loop of splitFrame
SplitTile(resized, x, y, ext) ==
    LET cloned == Crop(Clone(resized), x * SIZE, y * SIZE, SIZE, SIZE)
    IN  IF ext = <<"gif">> THEN Posterize(cloned, GIF_POSTERIZE) ELSE cloned

\* the loops nested the other way round: x outer, y inner
RECURSIVE SplitLoopColumnMajor(_, _, _, _, _, _, _)
SplitLoopColumnMajor(resized, cols, rows, ext, x, y, images) ==
    IF x >= cols THEN images
    ELSE IF y >= rows
    THEN SplitLoopColumnMajor(resized, cols, rows, ext, x + 1, 0, images)
    ELSE SplitLoopColumnMajor(resized, cols, rows, ext, x, y + 1,
                              Append(images, SplitTile(resized, x, y, ext)))

\* the two nested loops of splitFrame, from (x, y) on
RECURSIVE SplitLoop(_, _, _, _, _, _, _)
SplitLoop(resized, cols, rows, ext, x, y, images) ==
    IF y >= rows THEN images
    ELSE IF x >= cols THEN SplitLoop(resized, cols, rows, ext, 0, y + 1, images)
    ELSE SplitLoop(resized, cols, rows, ext, x + 1, y,
                   Append(images, SplitTile(resized, x, y, ext)))

splitFrame(image, wParts, hParts, ext, mode) ==
    LET width == JsMul(wParts, Num(SIZE))
        height == JsMul(hParts, Num(SIZE))
        resized == Resize(image, mode, width, height)
    IN  SplitLoop(resized, LoopCount(wParts), LoopCount(hParts), ext, 0, 0, <<>>)

\* ------------------------------------------------------------ output files
\* the suffix numbered from 0
OutNameZeroBased(name, count, idx, ext) ==
    name \o (IF count > 1 THEN <<"-">> \o NumToString(idx) ELSE <<>>)
         \o <<".">> \o ext

\* `${name}${count > 1 ? '-' + (i + 1) : ''}.${ext}`
OutName(name, count, idx, ext) ==
    name \o (IF count > 1 THEN <<"-">> \o NumToString(idx + 1) ELSE <<>>)
         \o <<".">> \o ext

\* the directory left as it is
emptyDirSyncSkipped(d) == d

\* emptyDirSync: the directory without its entries
emptyDirSync(d) == {}

\* a write of path: the entry of that name is replaced
WriteFile(d, path, tile) ==
    {f \in d : f.path # path} \cup {[path |-> path, origin |-> "run", tile |-> tile]}

\* every entry put in front of its list
PushPartsUnshift(gs, frameParts, frameInfo) ==
    [j \in 1..Len(gs) |->
        IF j <= Len(frameParts)
        THEN <<[frame |-> frameParts[j], frameInfo |-> frameInfo]>> \o gs[j]
        ELSE gs[j]]

\* gifs[j].push({frame, frameInfo}) for every j < frameParts.length
PushParts(gs, frameParts, frameInfo) ==
    [j \in 1..Len(gs) |->
        IF j <= Len(frameParts)
        THEN Append(gs[j], [frame |-> frameParts[j], frameInfo |-> frameInfo])
        ELSE gs[j]]

\* new GifFrame(SIZE, SIZE, 0, {delayCentisecs}) with the tile's pixels
GifFrame(size, entry) ==
    [width |-> size, height |-> size,
     delayCentisecs |-> Num(entry.frameInfo.delay), bitmap |-> entry.frame]

EncodeTask(g, idx, path, size) ==
    [kind |-> "encodeGif", tile |-> idx, path |-> path, st |-> "pending",
     frames |-> [k \in 1..Len(g) |-> GifFrame(size, g[k])]]

WriteTask(image, idx, path) ==
    [kind |-> "write", tile |-> idx, path |-> path, st |-> "pending",
     frames |-> <<[width |-> image.w.v, height |-> image.h.v,
                   delayCentisecs |-> Undefined, bitmap |-> image]>>]

\* -------------------------------------------------------------------- state
VARIABLES
    variant,      \* which program runs: "grid" (index.js) or "mask" (part_000)
    args,         \* the answers of the prompts, as passed to init
    dir,          \* the entries of `${OUT_PATH}/${name}`
    emptied,      \* how often the run has emptied that directory
    history,      \* the image recorded in history.json
    pc,           \* where init is suspended
    initPromise,  \* "none", "pending", "fulfilled" or "rejected"
    widthParts, heightParts, ext,
    frames,       \* the frames gifFrames resolved with
    i,            \* index of the frame loop
    gifs,         \* per tile, the {frame, frameInfo} entries pushed so far
    readTask,     \* the Jimp.read(image) promise of the static branch
    masks,        \* part_000: the mask files left by the filter of readdirSync
    mi,           \* part_000: index of the mask loop
    gif,          \* part_000: the {frame, frameInfo} entries of the current mask
    tasks,        \* the encodes and writes issued, each pending, written or failed
    log           \* what the program's own handlers have printed

vars == <<variant, args, dir, emptied, history, pc, initPromise, widthParts,
          heightParts, ext, frames, i, gifs, readTask, masks, mi, gif, tasks, log>>

\* ------------------------------------------------------------------- inputs
NAME == <<"emoji">>

Modes == {"resize", "cover", "contain"}

FilterChoices == {"brightness", "invert", "flip"}

FilterValues == [brightness |-> 50, flip |-> "horizontal"]

\* the lists the filter multiselect can return, up to MaxFilters long
FilterInputs ==
    {f \in UNION {[1..n -> FilterChoices] : n \in 0..MaxFilters} :
        \A a, b \in 1..Len(f) : a # b => f[a] # f[b]}

ImageInputs ==
    {s \in {<<"a", ".", "png">>, <<"'", "a", ".", "gif", "'">>} : ValidateImage(s)}
        \cup {<<>>}

PartChars == {DigitChars[k + 1] : k \in 0..MaxPart}

\* the tile count a dimensions string leads to
TileCountOf(s) ==
    LoopCount(JsMul(ParseDimensions(s).widthParts, ParseDimensions(s).heightParts))

\* answers of the dimensions question: n, or w and h around one separator
DimensionInputs ==
    {s \in {<<a>> : a \in PartChars}
           \cup {<<a, sep, b>> : a \in PartChars, sep \in {",", "x", "|"},
                                b \in PartChars} :
        ValidateDimensions(s) /\ TileCountOf(s) <= MaxTiles}
        \cup {<<>>}

\* the delays a source frame may carry, in centiseconds
DelayInputs == {10, 20}

\* what an earlier run of a 2 by 2 grid under the same name left behind
OldRunFiles ==
    {[path |-> OutName(NAME, c, n, <<e>>), origin |-> "old", tile |-> n] :
        c \in {1, 4}, n \in 0..3, e \in {"png", "gif"}}

Log(msg, tile) == [msg |-> msg, tile |-> tile]

Init ==
    /\ variant \in {"grid", "mask"}
    /\ args \in [image : ImageInputs, mode : Modes, name : {NAME},
                 filterValues : {FilterValues},
                 dimensions : IF variant = "grid" THEN DimensionInputs ELSE {<<>>},
                 filters : IF variant = "grid" THEN FilterInputs ELSE {<<>>}]
    /\ dir = OldRunFiles
    /\ emptied = 0
    /\ history = <<>>
    /\ pc = "prompts"
    /\ initPromise = "none"
    /\ widthParts = Undefined
    /\ heightParts = Undefined
    /\ ext = <<>>
    /\ frames = <<>>
    /\ i = 0
    /\ gifs = <<>>
    /\ readTask = "none"
    /\ masks = <<>>
    /\ mi = 0
    /\ gif = <<>>
    /\ tasks = <<>>
    /\ log = {}

\* ------------------------------------------------------ index.js: the run
\* The prompts have resolved: either no image was given, or init is called
\* and runs up to its first await (or to its end, in the static branch).
Main ==
    /\ variant = "grid"
    /\ pc = "prompts"
    /\ UNCHANGED <<masks, mi, gif, variant, args, frames, i, gifs, tasks>>
    /\ IF args.image = <<>>
       THEN /\ log' = log \cup {Log("No image specified", 0)}
            /\ pc' = "exit"
            /\ UNCHANGED <<dir, emptied, history, initPromise, widthParts,
                           heightParts, ext, readTask>>
       ELSE /\ dir' = emptyDirSync(dir)
            /\ emptied' = emptied + 1
            /\ history' = args.image
            /\ IF args.dimensions # <<>> /\ args.mode # ""
               THEN LET image == StripQuotes(args.image)
                        shape == ParseDimensions(args.dimensions)
                    IN  /\ ext' = ExtOf(image)
                        /\ IF ~shape.ok
                           THEN /\ log' = log \cup {Log("Invalid dimensions", 0)}
                                /\ pc' = "done"
                                /\ initPromise' = "fulfilled"
                                /\ UNCHANGED <<widthParts, heightParts, readTask>>
                           ELSE /\ widthParts' = shape.widthParts
                                /\ heightParts' = shape.heightParts
                                /\ log' = log
                                /\ IF ToLowerCase(ExtOf(image)) = <<"gif">>
                                   THEN /\ pc' = "gifFrames"
                                        /\ initPromise' = "pending"
                                        /\ readTask' = readTask
                                   ELSE /\ pc' = "done"
                                        /\ initPromise' = "fulfilled"
                                        /\ readTask' = "pending"
               ELSE /\ log' = log \cup {Log("Exited...", 0)}
                    /\ pc' = "done"
                    /\ initPromise' = "fulfilled"
                    /\ UNCHANGED <<widthParts, heightParts, ext, readTask>>

\* init throws at an await: its promise rejects and nothing more is issued
Reject ==
    /\ pc' = "done"
    /\ initPromise' = "rejected"

\* gifFrames resolves with the frames of the source; gifs gets one list per tile
GifFramesResolved ==
    /\ variant = "grid"
    /\ pc = "gifFrames"
    /\ \E n \in 1..MaxFrames :
         \E delays \in [1..n -> DelayInputs] :
            frames' = [k \in 1..n |-> [index |-> k, frameInfo |-> [delay |-> delays[k]]]]
    /\ gifs' = [k \in 1..LoopCount(JsMul(widthParts, heightParts)) |-> <<>>]
    /\ i' = 0
    /\ pc' = "jimpRead"
    /\ UNCHANGED <<masks, mi, gif, variant, args, dir, emptied, history, initPromise, widthParts,
                   heightParts, ext, readTask, tasks, log>>

\* the fetch or the decode of the animation fails
GifFramesRejected ==
    /\ variant = "grid"
    /\ pc = "gifFrames"
    /\ Reject
    /\ UNCHANGED <<masks, mi, gif, variant, args, dir, emptied, history, widthParts, heightParts,
                   ext, frames, i, gifs, readTask, tasks, log>>

\* the encode loop: one encodeGif per tile, none awaited
EncodeLoop(gs) ==
    [t \in 1..Len(gs) |->
        EncodeTask(gs[t], t - 1, OutName(args.name, Len(gs), t - 1, <<"gif">>), SIZE)]

\* Jimp.read of frame i resolves: the frame is filtered, split and pushed; after
\* the last frame the encode loop runs and init returns
FrameRead ==
    /\ variant = "grid"
    /\ pc = "jimpRead"
    /\ LET jimpFrame == applyFilters(Decoded(frames[i + 1].index), args.filters,
                                     args.filterValues)
           frameParts == splitFrame(jimpFrame, widthParts, heightParts, ext, args.mode)
           pushed == PushParts(gifs, frameParts, frames[i + 1].frameInfo)
       IN  /\ Len(frameParts) <= Len(gifs)
           /\ gifs' = pushed
           /\ i' = i + 1
           /\ IF i + 1 < Len(frames)
              THEN UNCHANGED <<pc, initPromise, tasks>>
              ELSE /\ tasks' = EncodeLoop(pushed)
                   /\ pc' = "done"
                   /\ initPromise' = "fulfilled"
    /\ UNCHANGED <<masks, mi, gif, variant, args, dir, emptied, history, widthParts, heightParts,
                   ext, frames, readTask, log>>

\* Jimp.read of frame i rejects, or the resize of splitFrame throws
FrameRejected ==
    /\ variant = "grid"
    /\ pc = "jimpRead"
    /\ Reject
    /\ UNCHANGED <<masks, mi, gif, variant, args, dir, emptied, history, widthParts, heightParts,
                   ext, frames, i, gifs, readTask, tasks, log>>

\* encodeGif of tile t resolves and its then-callback writes the file
EncodeGifThen(t) ==
    /\ variant = "grid"
    /\ tasks[t].kind = "encodeGif"
    /\ tasks[t].st = "pending"
    /\ dir' = WriteFile(dir, tasks[t].path, tasks[t].tile)
    /\ tasks' = [tasks EXCEPT ![t].st = "written"]
    /\ UNCHANGED <<masks, mi, gif, variant, args, emptied, history, pc, initPromise, widthParts,
                   heightParts, ext, frames, i, gifs, readTask, log>>

\* encodeGif of tile t rejects, or writeFileSync throws in the then-callback:
\* the chain has no catch, so the program prints nothing
EncodeGifUnhandled(t) ==
    /\ variant = "grid"
    /\ tasks[t].kind = "encodeGif"
    /\ tasks[t].st = "pending"
    /\ tasks' = [tasks EXCEPT ![t].st = "failed"]
    /\ UNCHANGED <<masks, mi, gif, variant, args, dir, emptied, history, pc, initPromise, widthParts,
                   heightParts, ext, frames, i, gifs, readTask, log>>

\* the forEach over parts: image.write is issued for the first k tiles
WriteLoop(parts, k) ==
    [t \in 1..k |->
        WriteTask(parts[t], t - 1, OutName(args.name, Len(parts), t - 1, ext))]

\* Jimp.read(image) of the static branch resolves: the then-callback filters,
\* splits and writes every part; a throw inside it ends the callback in the catch
StaticReadThen ==
    /\ variant = "grid"
    /\ readTask = "pending"
    /\ readTask' = "done"
    /\ LET image == applyFilters(Decoded(1), args.filters, args.filterValues)
           parts == splitFrame(image, widthParts, heightParts, ext, args.mode)
       IN  \E outcome \in ResizeOutcomes(JsMul(widthParts, Num(SIZE)),
                                         JsMul(heightParts, Num(SIZE))) :
             \E k \in 0..Len(parts) :
                IF outcome = "throw"
                THEN /\ tasks' = <<>>
                     /\ log' = log \cup {Log("catch", 0)}
                ELSE /\ tasks' = WriteLoop(parts, k)
                     /\ log' = IF k < Len(parts)
                               THEN log \cup {Log("catch", k)}
                               ELSE log
    /\ UNCHANGED <<masks, mi, gif, variant, args, dir, emptied, history, pc, initPromise, widthParts,
                   heightParts, ext, frames, i, gifs>>

\* Jimp.read(image) rejects: console.log in the catch
StaticReadCatch ==
    /\ variant = "grid"
    /\ readTask = "pending"
    /\ readTask' = "failed"
    /\ log' = log \cup {Log("catch", 0)}
    /\ UNCHANGED <<masks, mi, gif, variant, args, dir, emptied, history, pc, initPromise, widthParts,
                   heightParts, ext, frames, i, gifs, tasks>>

\* the write of tile t completes
JimpWriteDone(t) ==
    /\ variant = "grid"
    /\ tasks[t].kind = "write"
    /\ tasks[t].st = "pending"
    /\ dir' = WriteFile(dir, tasks[t].path, tasks[t].tile)
    /\ tasks' = [tasks EXCEPT ![t].st = "written"]
    /\ UNCHANGED <<masks, mi, gif, variant, args, emptied, history, pc, initPromise, widthParts,
                   heightParts, ext, frames, i, gifs, readTask, log>>

\* the write of tile t fails after it was issued: write was given no callback
JimpWriteError(t) ==
    /\ variant = "grid"
    /\ tasks[t].kind = "write"
    /\ tasks[t].st = "pending"
    /\ tasks' = [tasks EXCEPT ![t].st = "failed"]
    /\ UNCHANGED <<masks, mi, gif, variant, args, dir, emptied, history, pc, initPromise, widthParts,
                   heightParts, ext, frames, i, gifs, readTask, log>>

\* ------------------------------------------------------ part_000: the run
alphabet ==
    <<"A", "B", "C", "D", "E", "F", "G", "H", "I", "J", "K", "L", "M", "N", "O",
      "P", "Q", "R", "S", "T", "U", "V", "W", "X", "Y", "Z", "exclamation",
      "question", "period", "comma", "0", "1", "2", "3", "4", "5", "6", "7", "8",
      "9", "open-parenthesis", "close-parenthesis", "open-bracket",
      "close-bracket", "colon", "semi-colon", "equals", "quote", "apostrophe",
      "underscore", "plus", "minus", "asterisk", "slash", "pipe", "less-than",
      "greater-than", "at-sign", "hash", "dollar-sign", "modulo", "caret",
      "ampersand">>

\* parseInt(str): the value of the leading digits, NaN when there are none
ParseInt(s) ==
    LET n == CHOOSE k \in 0..Len(s) :
                 /\ \A m \in 1..k : s[m] \in Digits
                 /\ (k < Len(s) => s[k + 1] \notin Digits)
    IN  IF n = 0 THEN NaN ELSE Num(DecimalValue(SubSeq(s, 1, n)))

\* /(^|\/)\.[^/.]/ : a dot at the start of a path segment, then a name
IsHidden(item) ==
    \E k \in 1..(Len(item) - 1) :
        /\ k = 1 \/ item[k - 1] = "/"
        /\ item[k] = "."
        /\ item[k + 1] \notin {"/", "."}

\* readdirSync(MASKS_PATH).filter(item => !hidden)
RECURSIVE FilterHidden(_)
FilterHidden(items) ==
    IF Len(items) = 0 THEN <<>>
    ELSE (IF IsHidden(Head(items)) THEN <<>> ELSE <<Head(items)>>)
             \o FilterHidden(Tail(items))

\* alphabet[parseInt(maskFile.split('.')[0]) - 1]; <<>> stands for undefined
MaskNameOf(maskFile) ==
    LET n == ParseInt(Split(maskFile, ".")[1])
    IN  IF n.t = "num" /\ n.v - 1 >= 0 /\ n.v - 1 < Len(alphabet)
        THEN <<alphabet[n.v]>>
        ELSE <<>>

MaskFile(n) == NumToString(n) \o <<".", "png">>

\* the listings of the mask directory: n numbered masks, alone, after a hidden
\* entry, or before a mask whose number is past the alphabet
MaskDirInputs ==
    UNION {{[k \in 1..n |-> MaskFile(k)],
            <<<<".", "DS_Store">>>> \o [k \in 1..n |-> MaskFile(k)],
            [k \in 1..n |-> MaskFile(k)] \o <<MaskFile(Len(alphabet) + 1)>>} :
           n \in 0..MaxMasks}

getImageWithMask(image, mask, e, mode) ==
    LET width == Num(MASK_SIZE)
        height == Num(MASK_SIZE)
        resized == Resize(image, mode, width, height)
        cloned == Crop(Clone(resized), 0, 0, MASK_SIZE, MASK_SIZE)
        masked == Apply(cloned, "mask", <<mask, 0, 0>>)
    IN  IF e = <<"gif">> THEN Posterize(masked, GIF_POSTERIZE) ELSE masked

\* `${name}-${maskName}.gif`
MaskGifName(name, maskName) == name \o <<"-">> \o maskName \o <<".", "gif">>

\* `${name}.${ext}`
MaskStaticName(name, maskName, e) == name \o <<".">> \o e

\* The top of iteration k (0-based) of the mask loop, up to await Jimp.read(mask).
\* Past the last mask init returns; a mask whose number has no alphabet entry
\* makes the initializer of maskName read maskName itself, which throws.
EnterMask(k) ==
    IF k >= Len(masks')
    THEN /\ pc' = "done"
         /\ initPromise' = "fulfilled"
         /\ UNCHANGED <<mi, ext>>
    ELSE /\ ext' = ExtOf(StripQuotes(args.image))
         /\ mi' = k
         /\ IF MaskNameOf(masks'[k + 1]) = <<>>
            THEN Reject
            ELSE /\ pc' = "maskRead"
                 /\ initPromise' = "pending"

MaskMain ==
    /\ variant = "mask"
    /\ pc = "prompts"
    /\ UNCHANGED <<variant, args, widthParts, heightParts, frames, i, gifs,
                   readTask, gif, tasks>>
    /\ IF args.image = <<>>
       THEN /\ log' = log \cup {Log("No image specified", 0)}
            /\ pc' = "exit"
            /\ UNCHANGED <<dir, emptied, history, initPromise, ext, masks, mi>>
       ELSE /\ dir' = emptyDirSync(dir)
            /\ emptied' = emptied + 1
            /\ history' = args.image
            /\ log' = log
            /\ \E listing \in MaskDirInputs : masks' = FilterHidden(listing)
            /\ EnterMask(0)

\* Jimp.read of the mask file rejects
MaskReadRejected ==
    /\ variant = "mask"
    /\ pc = "maskRead"
    /\ Reject
    /\ UNCHANGED <<variant, args, dir, emptied, history, widthParts, heightParts,
                   ext, frames, i, gifs, readTask, masks, mi, gif, tasks, log>>

\* the mask is read and the source is animated: on to gifFrames
MaskReadGif ==
    /\ variant = "mask"
    /\ pc = "maskRead"
    /\ ToLowerCase(ext) = <<"gif">>
    /\ pc' = "gifFrames"
    /\ UNCHANGED <<variant, args, dir, emptied, history, initPromise, widthParts,
                   heightParts, ext, frames, i, gifs, readTask, masks, mi, gif,
                   tasks, log>>

\* the mask is read and the source is static: Jimp.read(image) is issued, not
\* awaited, and the loop goes on to the next mask
MaskReadStatic ==
    /\ variant = "mask"
    /\ pc = "maskRead"
    /\ ToLowerCase(ext) # <<"gif">>
    /\ tasks' = Append(tasks,
                  [kind |-> "read", tile |-> mi, st |-> "pending", frames |-> <<>>,
                   path |-> MaskStaticName(args.name, MaskNameOf(masks[mi + 1]), ext)])
    /\ masks' = masks
    /\ EnterMask(mi + 1)
    /\ UNCHANGED <<variant, args, dir, emptied, history, widthParts, heightParts,
                   frames, i, gifs, readTask, gif, log>>

\* gifFrames resolves: the source file is the same for every mask
MaskGifFramesResolved ==
    /\ variant = "mask"
    /\ pc = "gifFrames"
    /\ \E n \in 1..MaxFrames :
         \E delays \in [1..n -> DelayInputs] :
            /\ frames' = [k \in 1..n |->
                             [index |-> k, frameInfo |-> [delay |-> delays[k]]]]
            /\ frames = <<>> \/ frames' = frames
    /\ gif' = <<>>
    /\ i' = 0
    /\ pc' = "jimpRead"
    /\ UNCHANGED <<variant, args, dir, emptied, history, initPromise, widthParts,
                   heightParts, ext, gifs, readTask, masks, mi, tasks, log>>

MaskGifFramesRejected ==
    /\ variant = "mask"
    /\ pc = "gifFrames"
    /\ Reject
    /\ UNCHANGED <<variant, args, dir, emptied, history, widthParts, heightParts,
                   ext, frames, i, gifs, readTask, masks, mi, gif, tasks, log>>

\* Jimp.read of frame i resolves: the frame is masked and pushed; after the last
\* frame the encode is issued, not awaited, and the loop goes on to the next mask
MaskFrameRead ==
    /\ variant = "mask"
    /\ pc = "jimpRead"
    /\ LET frame == getImageWithMask(Decoded(frames[i + 1].index), mi + 1, ext,
                                     args.mode)
           pushed == Append(gif, [frame |-> frame,
                                  frameInfo |-> frames[i + 1].frameInfo])
       IN  /\ gif' = pushed
           /\ i' = i + 1
           /\ masks' = masks
           /\ IF i + 1 < Len(frames)
              THEN UNCHANGED <<pc, initPromise, tasks, mi, ext>>
              ELSE /\ tasks' = Append(tasks,
                         EncodeTask(pushed, mi,
                             MaskGifName(args.name, MaskNameOf(masks[mi + 1])),
                             MASK_SIZE))
                   /\ EnterMask(mi + 1)
    /\ UNCHANGED <<variant, args, dir, emptied, history, widthParts, heightParts,
                   frames, gifs, readTask, log>>

MaskFrameRejected ==
    /\ variant = "mask"
    /\ pc = "jimpRead"
    /\ Reject
    /\ UNCHANGED <<variant, args, dir, emptied, history, widthParts, heightParts,
                   ext, frames, i, gifs, readTask, masks, mi, gif, tasks, log>>

MaskEncodeGifThen(t) ==
    /\ variant = "mask"
    /\ tasks[t].kind = "encodeGif"
    /\ tasks[t].st = "pending"
    /\ dir' = WriteFile(dir, tasks[t].path, tasks[t].tile)
    /\ tasks' = [tasks EXCEPT ![t].st = "written"]
    /\ UNCHANGED <<variant, args, emptied, history, pc, initPromise, widthParts,
                   heightParts, ext, frames, i, gifs, readTask, masks, mi, gif, log>>

MaskEncodeGifUnhandled(t) ==
    /\ variant = "mask"
    /\ tasks[t].kind = "encodeGif"
    /\ tasks[t].st = "pending"
    /\ tasks' = [tasks EXCEPT ![t].st = "failed"]
    /\ UNCHANGED <<variant, args, dir, emptied, history, pc, initPromise, widthParts,
                   heightParts, ext, frames, i, gifs, readTask, masks, mi, gif, log>>

\* Jimp.read(image) of mask t resolves: the then-callback masks the image and
\* issues its write, or a throw inside it ends in the catch
MaskStaticReadThen(t) ==
    /\ variant = "mask"
    /\ tasks[t].kind = "read"
    /\ tasks[t].st = "pending"
    /\ LET image == getImageWithMask(Decoded(1), tasks[t].tile + 1, ext, args.mode)
       IN  \E threw \in BOOLEAN :
             IF threw
             THEN /\ tasks' = [tasks EXCEPT ![t].st = "failed"]
                  /\ log' = log \cup {Log("catch", tasks[t].tile)}
             ELSE /\ tasks' = [tasks EXCEPT
                                 ![t] = WriteTask(image, tasks[t].tile, tasks[t].path)]
                  /\ log' = log
    /\ UNCHANGED <<variant, args, dir, emptied, history, pc, initPromise, widthParts,
                   heightParts, ext, frames, i, gifs, readTask, masks, mi, gif>>

\* Jimp.read(image) of mask t rejects: console.log in the catch
MaskStaticReadCatch(t) ==
    /\ variant = "mask"
    /\ tasks[t].kind = "read"
    /\ tasks[t].st = "pending"
    /\ tasks' = [tasks EXCEPT ![t].st = "failed"]
    /\ log' = log \cup {Log("catch", tasks[t].tile)}
    /\ UNCHANGED <<variant, args, dir, emptied, history, pc, initPromise, widthParts,
                   heightParts, ext, frames, i, gifs, readTask, masks, mi, gif>>

MaskWriteDone(t) ==
    /\ variant = "mask"
    /\ tasks[t].kind = "write"
    /\ tasks[t].st = "pending"
    /\ dir' = WriteFile(dir, tasks[t].path, tasks[t].tile)
    /\ tasks' = [tasks EXCEPT ![t].st = "written"]
    /\ UNCHANGED <<variant, args, emptied, history, pc, initPromise, widthParts,
                   heightParts, ext, frames, i, gifs, readTask, masks, mi, gif, log>>

MaskWriteError(t) ==
    /\ variant = "mask"
    /\ tasks[t].kind = "write"
    /\ tasks[t].st = "pending"
    /\ tasks' = [tasks EXCEPT ![t].st = "failed"]
    /\ UNCHANGED <<variant, args, dir, emptied, history, pc, initPromise, widthParts,
                   heightParts, ext, frames, i, gifs, readTask, masks, mi, gif, log>>

Next ==
    \/ Main
    \/ GifFramesResolved
    \/ GifFramesRejected
    \/ FrameRead
    \/ FrameRejected
    \/ StaticReadThen
    \/ StaticReadCatch
    \/ \E t \in 1..Len(tasks) : EncodeGifThen(t)
    \/ \E t \in 1..Len(tasks) : EncodeGifUnhandled(t)
    \/ \E t \in 1..Len(tasks) : JimpWriteDone(t)
    \/ \E t \in 1..Len(tasks) : JimpWriteError(t)
    \/ MaskMain
    \/ MaskReadRejected
    \/ MaskReadGif
    \/ MaskReadStatic
    \/ MaskGifFramesResolved
    \/ MaskGifFramesRejected
    \/ MaskFrameRead
    \/ MaskFrameRejected
    \/ \E t \in 1..Len(tasks) : MaskEncodeGifThen(t)
    \/ \E t \in 1..Len(tasks) : MaskEncodeGifUnhandled(t)
    \/ \E t \in 1..Len(tasks) : MaskStaticReadThen(t)
    \/ \E t \in 1..Len(tasks) : MaskStaticReadCatch(t)
    \/ \E t \in 1..Len(tasks) : MaskWriteDone(t)
    \/ \E t \in 1..Len(tasks) : MaskWriteError(t)

Spec == Init /\ [][Next]_vars

\* --------------------------------------------------------------- properties
Cols == LoopCount(widthParts)
Rows == LoopCount(heightParts)

\* the grid program has parsed a shape of two positive integers
PositiveShape ==
    /\ variant = "grid"
    /\ JsLt(Num(0), widthParts)
    /\ JsLt(Num(0), heightParts)

\* the arguments of the crop that made a tile
CropArgs(image) ==
    image.ops[CHOOSE k \in 1..Len(image.ops) : image.ops[k].op = "crop"].args

\* the window of the tile at row-major index n
WindowOf(n) == <<(n % Cols) * SIZE, (n \div Cols) * SIZE, SIZE, SIZE>>

AllTasksWritten == \A t \in 1..Len(tasks) : tasks[t].st = "written"

\* C1: in grid mode with an animated source and a shape of positive columns and
\* rows, there is one sequence per tile; while the frame loop has handled i
\* frames every sequence has length i (so L after the loop), entry k of tile j
\* is tile j of source frame k with the delay of source frame k, and the frames
\* handed to the encoder carry those delays in that order.
C1_TilePlanPositional ==
    (PositiveShape /\ frames # <<>>) =>
        /\ Len(gifs) = Cols * Rows
        /\ \A j \in 1..Len(gifs) :
             /\ Len(gifs[j]) = i
             /\ \A k \in 1..Len(gifs[j]) :
                  /\ gifs[j][k].frame.src = frames[k].index
                  /\ gifs[j][k].frameInfo.delay = frames[k].frameInfo.delay
                  /\ CropArgs(gifs[j][k].frame) = WindowOf(j - 1)
        /\ \A t \in 1..Len(tasks) :
             /\ i = Len(frames)
             /\ Len(tasks) = Cols * Rows
             /\ tasks[t].tile = t - 1
             /\ Len(tasks[t].frames) = Len(frames)
             /\ \A k \in 1..Len(frames) :
                  /\ tasks[t].frames[k].delayCentisecs = Num(frames[k].frameInfo.delay)
                  /\ tasks[t].frames[k].bitmap = gifs[t][k].frame

C1_Witness ==
    /\ PositiveShape
    /\ Len(frames) = 2
    /\ frames[1].frameInfo.delay # frames[2].frameInfo.delay
    /\ Len(tasks) = 4
    /\ tasks[4].kind = "encodeGif"

\* C2: for a shape of positive columns and rows splitFrame returns columns*rows
\* tiles, each SIZE by SIZE, the tile at index n being the window at offset
\* ((n mod columns)*SIZE, (n div columns)*SIZE) of the frame resized to
\* columns*SIZE by rows*SIZE; the tiles the static branch writes are these.
C2_SplitRowMajor ==
    (PositiveShape /\ readTask = "done") =>
        LET image == applyFilters(Decoded(1), args.filters, args.filterValues)
            parts == splitFrame(image, widthParts, heightParts, ext, args.mode)
        IN  /\ Len(parts) = Cols * Rows
            /\ \A n \in 0..(Len(parts) - 1) :
                 /\ parts[n + 1].w = Num(SIZE)
                 /\ parts[n + 1].h = Num(SIZE)
                 /\ CropArgs(parts[n + 1]) = WindowOf(n)
                 /\ \E k \in 1..Len(parts[n + 1].ops) :
                      /\ parts[n + 1].ops[k].op = args.mode
                      /\ parts[n + 1].ops[k].args =
                             <<Num(Cols * SIZE), Num(Rows * SIZE)>>
                      /\ parts[n + 1].ops[k + 1].op = "crop"
            /\ \A t \in 1..Len(tasks) :
                 /\ tasks[t].frames[1].bitmap = parts[t]
                 /\ tasks[t].frames[1].width = SIZE
                 /\ tasks[t].frames[1].height = SIZE

C2_Witness ==
    /\ PositiveShape
    /\ readTask = "done"
    /\ Cols = 2
    /\ Rows = 2
    /\ Len(tasks) = 4

\* C3: whenever init has resolved, no read, encode or write of the run is still
\* outstanding.
C3_WritesDoneWhenInitResolves ==
    initPromise = "fulfilled" =>
        /\ readTask # "pending"
        /\ \A t \in 1..Len(tasks) : tasks[t].st # "pending"

\* the documented name of the file of tile n of count tiles
ExpectedGridName(n, count, e) ==
    IF count = 1
    THEN NAME \o <<".">> \o e
    ELSE NAME \o <<"-">> \o NumToString(n + 1) \o <<".">> \o e

\* the extension of the outputs of the grid run
OutExt == IF ToLowerCase(ext) = <<"gif">> THEN <<"gif">> ELSE ext

\* C4: in grid mode with N = columns*rows >= 1 tiles, every file the run writes
\* is the file of one tile n in 0..N-1, named with no suffix when N = 1 and with
\* the suffix -(n+1) when N > 1; once all N encodes or writes are done the
\* directory holds exactly N files.
C4_GridOutputNames ==
    PositiveShape =>
        /\ \A f \in dir :
             f.origin = "run" =>
                /\ f.tile \in 0..(Cols * Rows - 1)
                /\ f.path = ExpectedGridName(f.tile, Cols * Rows, OutExt)
        /\ (Len(tasks) = Cols * Rows /\ AllTasksWritten) =>
                /\ Cardinality(dir) = Cols * Rows
                /\ \A n \in 0..(Cols * Rows - 1) :
                     \E f \in dir : f.tile = n /\ f.origin = "run"

C4_Witness ==
    /\ PositiveShape
    /\ Cols * Rows = 4
    /\ Len(tasks) = 4
    /\ AllTasksWritten
    /\ \E f \in dir : f.path = NAME \o <<"-", "4", ".", "png">> /\ f.tile = 3

\* C5: mask mode with a static source and M masks: once every mask's write is
\* done the directory holds M files, the one of each mask named
\* name-<maskName>.
C5_MaskStaticOutputs ==
    (/\ variant = "mask"
     /\ initPromise = "fulfilled"
     /\ ToLowerCase(ext) # <<"gif">>
     /\ Len(tasks) = Len(masks)
     /\ AllTasksWritten) =>
        /\ Cardinality(dir) = Len(masks)
        /\ \A m \in 1..Len(masks) :
             \E f \in dir :
                /\ f.tile = m - 1
                /\ f.path = NAME \o <<"-">> \o MaskNameOf(masks[m]) \o <<".">> \o ext

\* the documented shape of an accepted dimensions string: the digits
\* before the separator and the digits after it, or n twice
ExpectedShape(s) ==
    LET seps == {k \in 1..Len(s) : s[k] \notin Digits}
    IN  IF seps = {}
        THEN <<Num(DecimalValue(s)), Num(DecimalValue(s))>>
        ELSE LET p == CHOOSE k \in seps : TRUE
             IN  <<Num(DecimalValue(SubSeq(s, 1, p - 1))),
                   Num(DecimalValue(SubSeq(s, p + 1, Len(s))))>>

\* C6: every dimensions string the pattern accepts (W,H  WxH  N) is parsed into
\* numeric columns and rows, (W, H) or (N, N).
C6_ShapeParsed ==
    (/\ variant = "grid"
     /\ initPromise # "none"
     /\ args.dimensions # <<>>
     /\ ValidateDimensions(args.dimensions)) =>
        /\ widthParts.t = "num"
        /\ heightParts.t = "num"
        /\ <<widthParts, heightParts>> = ExpectedShape(args.dimensions)

\* a target dimension of the run is zero
ZeroTarget ==
    /\ variant = "grid"
    /\ initPromise # "none"
    /\ args.dimensions # <<>>
    /\ \/ JsMul(widthParts, Num(SIZE)) = Num(0)
       \/ JsMul(heightParts, Num(SIZE)) = Num(0)

\* C7: a run whose target width or height is zero never gets to fetch, decode,
\* filter or split a frame.
C7_ZeroTargetRejected ==
    ZeroTarget =>
        /\ pc \notin {"gifFrames", "jimpRead"}
        /\ readTask = "none"
        /\ frames = <<>>

\* C8: a run that enters init empties the output directory exactly once, before
\* any of its writes: a file of the run is only ever there after the emptying,
\* and after the emptying no file of an earlier run is left.
C8_DirectoryClearedOnce ==
    /\ emptied <= 1
    /\ initPromise # "none" => emptied = 1
    /\ \A f \in dir : f.origin = "run" => emptied = 1
    /\ emptied = 1 => \A f \in dir : f.origin = "run"
    /\ emptied = 0 => dir = OldRunFiles

C8_Witness ==
    /\ variant = "grid"
    /\ args.dimensions = <<"1">>
    /\ OldRunFiles # {}
    /\ AllTasksWritten
    /\ dir = {[path |-> NAME \o <<".", "png">>, origin |-> "run", tile |-> 0]}

\* C9: a failed encode or write of a tile is reported for that tile, and never
\* keeps a sibling tile from being written: in the static branch every tile of
\* the split frame gets its write issued.
C9_EncodeFailureIsolated ==
    /\ \A t \in 1..Len(tasks) :
         tasks[t].st = "failed" => Log("catch", tasks[t].tile) \in log
    /\ (PositiveShape /\ readTask = "done") => Len(tasks) = Cols * Rows

\* P holds of every tile image the run has produced: the entries of gifs and
\* the frames of the encodes and writes issued
EveryTileImage(P(_)) ==
    /\ \A j \in 1..Len(gifs) : \A k \in 1..Len(gifs[j]) : P(gifs[j][k].frame)
    /\ \A t \in 1..Len(tasks) :
         \A k \in 1..Len(tasks[t].frames) : P(tasks[t].frames[k].bitmap)

FiltersFirst(image) ==
    LET nf == Len(args.filters)
    IN  /\ Len(image.ops) = nf + 2 + (IF ext = <<"gif">> THEN 1 ELSE 0)
        /\ \A k \in 1..nf : image.ops[k].op = args.filters[k]
        /\ image.ops[nf + 1].op = args.mode
        /\ image.ops[nf + 1].args =
               <<JsMul(widthParts, Num(SIZE)), JsMul(heightParts, Num(SIZE))>>
        /\ image.ops[nf + 2].op = "crop"
        /\ ext = <<"gif">> => image.ops[nf + 3] = Op("posterize", <<GIF_POSTERIZE>>)

ResizeFirst(image) ==
    /\ image.ops[1].op = args.mode
    /\ \A k \in 1..Len(args.filters) :
         \E p \in 2..Len(image.ops) : image.ops[p].op = args.filters[k]
    /\ ext = <<"gif">> =>
           image.ops[Len(image.ops)] = Op("posterize", <<GIF_POSTERIZE>>)

\* C10 as amended: on every tile of the grid run the user's filters come first,
\* in list order, then the resize to the target size, then the crop, and for a
\* gif the posterize to 15 levels is the last operation.
C10_FiltersThenResize == variant = "grid" => EveryTileImage(FiltersFirst)

C10_Witness ==
    /\ variant = "grid"
    /\ args.filters = <<"brightness", "invert">>
    /\ ext = <<"gif">>
    /\ Len(tasks) = 2
    /\ Len(tasks[2].frames) = 2

\* C10 as stated: on every tile the resize is the first operation, the user's
\* filters follow it in list order, and for a gif the posterize to 15 levels is
\* the last operation.
C10_ResizeThenFilters == variant = "grid" => EveryTileImage(ResizeFirst)

====
